---------------------------- MODULE Spec2Model ----------------------------
(***************************************************************************)
(* A model of the Panop Terraform provider: the Zone and Asset resources   *)
(* (Create / Read / Update / Delete / ImportState), the Zone and Asset     *)
(* data sources (Read), and the remote Tower REST service they talk to.    *)
(*                                                                         *)
(* One behaviour drives one component instance (variable component): the   *)
(* components share no state, every handler is a synchronous call, and a   *)
(* handler is one action that includes the remote's answer.                *)
(***************************************************************************)
EXTENDS Integers, Sequences, FiniteSets, TLC

VARIABLES
    component,     \* which component instance the host drives in this run
    accessKey,     \* clientObj.accessKey, fixed by provider Configure
    zoneState,     \* the stored ZoneResourceModel, or NoState
    assetState,    \* the stored AssetResourceModel, or NoState
    remoteZones,   \* the remote's zone collection, in the remote's order
    remoteAssets,  \* the remote's asset collection, in the remote's order
    nextId,        \* the identifier the remote assigns next
    dataSource,    \* what the last data source Read stored, or NoState
    lastReq,       \* the HTTP request the last handler issued, or NoReq
    lastOp,        \* the last handler call: name, inputs, outcome
    untouched,     \* no other client has changed the remote since that call
    createdId,     \* the id stored by the successful Create of the tracked entity
    reread,        \* the last call was a Read that directly followed a Read
                   \* without error of the same remote collection
    snapshot       \* the record held after Create followed by a Read that
                   \* decoded the collection, kept while an import of it is verified

vars == <<component, accessKey, zoneState, assetState, remoteZones,
          remoteAssets, nextId, dataSource, lastReq, lastOp, untouched, createdId,
          reread, snapshot>>

---------------------------------------------------------------------------
(* Bounds of the model. *)

\* The remote assigns identifiers 1..MaxId to the entities it creates.
MaxId == 2
\* Import identifiers are strings of at most MaxLen characters.
MaxLen == 3
\* A data source reads remote collections of at most MaxColl entries.
MaxColl == 3

---------------------------------------------------------------------------
(* Framework values: types.String / types.Int64 are null, unknown or known. *)

Null == [k |-> "null"]
Unknown == [k |-> "unknown"]
Known(x) == [k |-> "known", v |-> x]

IsNull(a) == a.k = "null"
ValueInt64(a) == IF a.k = "known" THEN a.v ELSE 0
ValueString(a) == IF a.k = "known" THEN a.v ELSE ""

NoState == [absent |-> TRUE]
NoReq == [method |-> "none"]
NoBody == [nobody |-> TRUE]

\* net/http status codes the handlers test for.
StatusCreated == 201
StatusOK == 200

---------------------------------------------------------------------------
(* Strings of decimal digits: strconv.ParseInt(s, 10, 64) and fmt's %d. *)

Digits == <<"0", "1", "2", "3", "4", "5", "6", "7", "8", "9">>
IsDigit(c) == \E i \in 1..10 : Digits[i] = c
DigitVal(c) == (CHOOSE i \in 1..10 : Digits[i] = c) - 1

RECURSIVE DigitsValue(_, _)
\* The value of the digit string s read after the value acc of the digits before it.
DigitsValue(s, acc) ==
    IF s = <<>> THEN acc
    ELSE DigitsValue(Tail(s), acc * 10 + DigitVal(Head(s)))

\* strconv.ParseInt(s, 10, 64): [val, err]. A syntax error gives 0. A string
\* of at most MaxLen digits is far inside int64 (which holds 18 digits), so
\* the range error of ParseInt is not reachable within the bounds.
ParseInt(s) ==
    LET neg == s # <<>> /\ Head(s) = "-"
        signed == s # <<>> /\ Head(s) \in {"+", "-"}
        body == IF signed THEN Tail(s) ELSE s
    IN  IF body = <<>> \/ \E i \in 1..Len(body) : ~IsDigit(body[i])
        THEN [val |-> 0, err |-> "syntax"]
        ELSE LET un == DigitsValue(body, 0)
             IN  [val |-> IF neg THEN -un ELSE un, err |-> "none"]

RECURSIVE NatDigits(_)
NatDigits(n) ==
    IF n < 10 THEN <<Digits[n + 1]>>
    ELSE Append(NatDigits(n \div 10), Digits[(n % 10) + 1])

\* fmt.Sprintf("%d", n), and the decimal string a host hands to import.
FormatInt(n) == IF n < 0 THEN <<"-">> \o NatDigits(-n) ELSE NatDigits(n)

---------------------------------------------------------------------------
(* JSON objects are functions from keys to values; a body that is not valid *)
(* JSON of the expected shape leaves json.Unmarshal's target untouched.     *)

Field(obj, key, zero) == IF key \in DOMAIN obj THEN obj[key] ELSE zero
\* A Go uint field: a negative number is a type error and leaves the zero.
UintField(obj, key) ==
    IF key \in DOMAIN obj /\ obj[key] >= 0 THEN obj[key] ELSE 0

\* The headers of a request that carries both of them.
JsonHeaders(key) ==
    ("Authorization" :> ("Bearer " \o key)) @@ ("Content-Type" :> "application/json")
\* The headers of a request that carries the credential alone.
AuthHeaders(key) == ("Authorization" :> ("Bearer " \o key))

Request(method, path, headers, body) ==
    [method |-> method, path |-> path, headers |-> headers, body |-> body]

---------------------------------------------------------------------------
(* The remote Tower service, as the handlers' request and response structs  *)
(* describe it.                                                             *)

Names == {"a.example", "b.example"}

\* The zone identifiers that assets refer to.
ZoneRefs == {1, 2}

\* The verification token the remote issues for the zone it creates as id.
Token(id) == "tok" \o ToString(id)

\* An entry of GET /api/zones.
ZoneEntry(id, name) ==
    [id |-> id, zone_name |-> name, zone_type |-> "dns", validated |-> FALSE,
     token |-> Token(id), tenant_id |-> 1]

\* The object the remote answers POST /api/zones with.
ZoneCreateReply(e) ==
    [zone_id |-> e.id, zone_name |-> e.zone_name, zone_type |-> e.zone_type,
     validated |-> e.validated, token |-> e.token]

\* An entry of GET /api/assets.
AssetEntry(id, name, zone) == [id |-> id, asset_name |-> name, zone_id |-> zone]

\* The object the remote answers POST /api/assets with.
AssetCreateReply(e) == [asset_id |-> e.id, asset_name |-> e.asset_name]

\* clientHttp.Do returned an error: no response was received. (none is what
\* a decoder of the expected shape is left with: no object, or no entries.)
TransportError(none) ==
    [neterr |-> TRUE, status |-> 0, decodable |-> FALSE, body |-> none,
     entry |-> NoBody]

\* The remote refuses the request with status s; its body is not of the
\* expected shape.
Refusal(s, none) ==
    [neterr |-> FALSE, status |-> s, decodable |-> FALSE, body |-> none,
     entry |-> NoBody]

\* The answers to a POST that would create entry e with reply object obj. The
\* remote creates at most MaxId entities; a 201 body may fail to decode.
RemoteCreate(e, obj) ==
    {TransportError(NoBody), Refusal(500, NoBody)}
    \cup (IF nextId <= MaxId
          THEN {[neterr |-> FALSE, status |-> StatusCreated, decodable |-> d,
                 body |-> obj, entry |-> e] : d \in BOOLEAN}
          ELSE {})

\* The answers to a GET of collection coll; a 200 body may fail to decode.
RemoteList(coll) ==
    {TransportError(<<>>), Refusal(500, <<>>)}
    \cup {[neterr |-> FALSE, status |-> StatusOK, decodable |-> d,
           body |-> coll, entry |-> NoBody] : d \in BOOLEAN}

Present(coll, id) == \E i \in 1..Len(coll) : coll[i].id = id
Without(coll, id) == SelectSeq(coll, LAMBDA e : e.id # id)

\* The answers to DELETE <collection>/<id>: the remote reads the identifier
\* from the path; it removes the entity and answers 200, or refuses.
RemoteDelete(coll, path) ==
    LET id == ParseInt(path[Len(path)]).val
    IN  {TransportError(NoBody)}
        \cup (IF Present(coll, id)
              THEN {[neterr |-> FALSE, status |-> StatusOK, decodable |-> TRUE,
                     body |-> NoBody, entry |-> NoBody], Refusal(500, NoBody)}
              ELSE {Refusal(404, NoBody)})

\* What a handler call leaves for the claims to read: its name, its input,
\* whether it returned an error diagnostic, the status it received (0 when it
\* received none), whether it decoded a body, the id the remote assigned.
Op(op, arg, err, status, decoded, rid) ==
    [op |-> op, arg |-> arg, err |-> err, status |-> status,
     decoded |-> decoded, rid |-> rid]

---------------------------------------------------------------------------
(* The Zone resource: PanopZoneResource.                                     *)

\* What a zone configuration may declare: zone_name is required, zone_type
\* and token are optional.
ZoneConfigs ==
    [zone_name : Names, zone_type : {Null, Known("web")},
     token : {Null, Known("declared")}]

\* The plan the framework derives from a configuration under the schema:
\* zone_type defaults to "dns"; id is computed with no plan modifier, token
\* is computed when it is not declared, and a computed attribute that the
\* configuration leaves null is unknown in the plan of a resource that changes.
ZonePlan(config) ==
    [zone_name |-> Known(config.zone_name),
     id |-> Unknown,
     zone_type |-> IF IsNull(config.zone_type) THEN Known("dns") ELSE config.zone_type,
     token |-> IF IsNull(config.token) THEN Unknown ELSE config.token]

\* The attributes of ZoneResourceModel (its tfsdk tags).
ZoneResourceModel == {"zone_name", "id", "zone_type", "token"}

\* req.Plan.Get / req.State.Get into a struct: it fails unless the object's
\* attributes are exactly the struct's tagged fields.
GetInto(obj, model) == DOMAIN obj = model

\* (mutant) ZoneInput with the token field added to the payload.
ZoneInputWithToken(data) ==
    [zone_name |-> ValueString(data.zone_name), tenant_id |-> 0,
     token |-> ValueString(data.token)]

\* The ZoneInput that Create marshals into the POST body.
ZoneInput(data) == [zone_name |-> ValueString(data.zone_name), tenant_id |-> 0]

\* (mutant) Create decoding the identifier from the key "id", as Read does.
ZoneCreateResponseById(reply) ==
    IF reply.decodable
    THEN [ZoneId |-> UintField(reply.body, "id"),
          Token |-> Field(reply.body, "token", "")]
    ELSE [ZoneId |-> 0, Token |-> ""]

\* Create decodes the response into its ZoneResponse struct.
ZoneCreateResponse(reply) ==
    IF reply.decodable
    THEN [ZoneId |-> UintField(reply.body, "zone_id"),
          Token |-> Field(reply.body, "token", "")]
    ELSE [ZoneId |-> 0, Token |-> ""]

\* (mutant) Create without its test of the response status.
AnyStatusAccepted(status) == TRUE

\* Create's test of the response status.
ZoneCreateAccepts(status) == status = StatusCreated

ZoneCreate(config) ==
    /\ component = "zone"
    /\ zoneState = NoState
    /\ LET data == ZonePlan(config)
           body == ZoneInput(data)
           e == ZoneEntry(nextId, Field(body, "zone_name", ""))
       IN  \E reply \in RemoteCreate(e, ZoneCreateReply(e)) :
             LET created == reply.status = StatusCreated
                 err == reply.neterr \/ ~ZoneCreateAccepts(reply.status)
                 zone == ZoneCreateResponse(reply)
             IN  /\ lastReq' = Request("POST", <<"api", "zones">>,
                                       JsonHeaders(accessKey), body)
                 /\ remoteZones' = IF created THEN Append(remoteZones, e)
                                   ELSE remoteZones
                 /\ nextId' = IF created THEN nextId + 1 ELSE nextId
                 /\ zoneState' = IF err THEN zoneState
                                 ELSE [data EXCEPT !.token = Known(zone.Token),
                                                   !.id = Known(zone.ZoneId)]
                 /\ createdId' = IF err THEN Null ELSE Known(zone.ZoneId)
                 /\ untouched' = TRUE
                 /\ reread' = FALSE
                 /\ lastOp' = Op("ZoneCreate", config, err, reply.status,
                                 created /\ reply.decodable,
                                 IF created THEN e.id ELSE 0)
    /\ snapshot' = NoState
    /\ UNCHANGED <<component, accessKey, assetState, remoteAssets, dataSource>>

\* (mutant) Read taking a body it cannot decode for one zero-valued entry.
ZoneReadResponseZeroEntry(reply) ==
    IF reply.decodable
    THEN [i \in 1..Len(reply.body) |->
            [Id |-> Field(reply.body[i], "id", 0),
             ZoneName |-> Field(reply.body[i], "zone_name", ""),
             ZoneType |-> Field(reply.body[i], "zone_type", ""),
             Token |-> Field(reply.body[i], "token", "")]]
    ELSE <<[Id |-> 0, ZoneName |-> "", ZoneType |-> "", Token |-> ""]>>

\* Read decodes each entry of the response into its ZoneResponse struct.
ZoneReadResponse(reply) ==
    IF reply.decodable
    THEN [i \in 1..Len(reply.body) |->
            [Id |-> Field(reply.body[i], "id", 0),
             ZoneName |-> Field(reply.body[i], "zone_name", ""),
             ZoneType |-> Field(reply.body[i], "zone_type", ""),
             Token |-> Field(reply.body[i], "token", "")]]
    ELSE <<>>

RECURSIVE ZoneScanKeepsType(_, _)
\* (mutant) the loop of Read without the overwrite of zone_type.
ZoneScanKeepsType(zones, data) ==
    IF zones = <<>> THEN data
    ELSE IF Head(zones).Id = ValueInt64(data.id)
         THEN [data EXCEPT !.zone_name = Known(Head(zones).ZoneName),
                           !.token = Known(Head(zones).Token)]
         ELSE ZoneScanKeepsType(Tail(zones), data)

RECURSIVE ZoneScanLastMatch(_, _)
\* (mutant) the loop of Read without its break: every matching entry
\* overwrites the record, so the last one stays.
ZoneScanLastMatch(zones, data) ==
    IF zones = <<>> THEN data
    ELSE ZoneScanLastMatch(Tail(zones),
            IF Head(zones).Id = ValueInt64(data.id)
            THEN [data EXCEPT !.zone_name = Known(Head(zones).ZoneName),
                              !.token = Known(Head(zones).Token),
                              !.zone_type = Known(Head(zones).ZoneType)]
            ELSE data)

RECURSIVE ZoneScan(_, _)
\* The loop of Read over the decoded zones: the first entry whose Id is the
\* held id overwrites name, token and type, and ends the loop.
ZoneScan(zones, data) ==
    IF zones = <<>> THEN data
    ELSE IF Head(zones).Id = ValueInt64(data.id)
         THEN [data EXCEPT !.zone_name = Known(Head(zones).ZoneName),
                           !.token = Known(Head(zones).Token),
                           !.zone_type = Known(Head(zones).ZoneType)]
         ELSE ZoneScan(Tail(zones), data)

ZoneRead ==
    /\ component = "zone"
    /\ zoneState # NoState
    /\ \E reply \in RemoteList(remoteZones) :
         LET err == reply.neterr \/ reply.status # StatusOK
             data == ZoneScan(ZoneReadResponse(reply), zoneState)
         IN  /\ lastReq' = Request("GET", <<"api", "zones">>,
                                   JsonHeaders(accessKey), NoBody)
             /\ zoneState' = IF err THEN zoneState ELSE data
             /\ untouched' = TRUE
             /\ reread' = (lastOp.op = "ZoneRead" /\ ~lastOp.err /\ untouched)
             /\ lastOp' = Op("ZoneRead", NoBody, err, reply.status,
                             ~err /\ reply.decodable, 0)
             /\ snapshot' =
                    IF lastOp.op = "ZoneCreate" /\ ~lastOp.err /\ ~err /\ reply.decodable
                    THEN data
                    ELSE IF lastOp.op = "ZoneImportState" THEN snapshot ELSE NoState
    /\ UNCHANGED <<component, accessKey, assetState, remoteZones, remoteAssets,
                   nextId, dataSource, createdId>>

\* The state the host proposes for a configuration over a prior state:
\* declared values, the default of zone_type, and for the computed attributes
\* the prior values. The host calls Update only when it differs from the
\* prior state.
ZoneProposed(config, prior) ==
    [zone_name |-> Known(config.zone_name),
     id |-> prior.id,
     zone_type |-> IF IsNull(config.zone_type) THEN Known("dns") ELSE config.zone_type,
     token |-> IF IsNull(config.token) THEN prior.token ELSE config.token]

\* (mutant) Update saving the record it already held.
ZoneUpdateKeepsPrior(data, prior) == prior

\* The record Update saves: the plan data it read, as it read it.
ZoneUpdated(data, prior) == data

ZoneUpdate(config) ==
    /\ component = "zone"
    /\ zoneState # NoState
    /\ ZoneProposed(config, zoneState) # zoneState
    /\ LET data == ZonePlan(config)
           err == ~GetInto(data, ZoneResourceModel)
       IN  /\ zoneState' = IF err THEN zoneState ELSE ZoneUpdated(data, zoneState)
           /\ untouched' = TRUE
           /\ reread' = FALSE
           /\ lastOp' = Op("ZoneUpdate", config, err, 0, FALSE, 0)
    /\ lastReq' = NoReq
    /\ snapshot' = NoState
    /\ UNCHANGED <<component, accessKey, assetState, remoteZones, remoteAssets,
                   nextId, dataSource, createdId>>

\* The headers Delete adds to its request.
ZoneDeleteHeaders(key) == AuthHeaders(key)

\* (mutant) Delete taking "not found" for success.
DeleteAcceptsNotFound(status) == status \in {StatusOK, 404}

\* Delete's test of the response status.
ZoneDeleteAccepts(status) == status = StatusOK

ZoneDelete ==
    /\ component = "zone"
    /\ zoneState # NoState
    /\ LET path == <<"api", "zones", FormatInt(ValueInt64(zoneState.id))>>
       IN  \E reply \in RemoteDelete(remoteZones, path) :
             LET err == reply.neterr \/ ~ZoneDeleteAccepts(reply.status)
                 deleted == reply.status = StatusOK
             IN  /\ lastReq' = Request("DELETE", path,
                                       ZoneDeleteHeaders(accessKey), NoBody)
                 /\ remoteZones' = IF deleted
                                   THEN Without(remoteZones, ParseInt(path[3]).val)
                                   ELSE remoteZones
                 \* the framework removes the record when Delete reports no error
                 /\ zoneState' = IF err THEN zoneState ELSE NoState
                 /\ createdId' = IF err THEN createdId ELSE Null
                 /\ snapshot' = NoState
                 /\ untouched' = TRUE
                 /\ reread' = FALSE
                 /\ lastOp' = Op("ZoneDelete", NoBody, err, reply.status, FALSE, 0)
    /\ UNCHANGED <<component, accessKey, assetState, remoteAssets, nextId,
                   dataSource>>

\* (mutant) ImportState parsing the identifier after its first character.
ImportedIdTail(s) == IF s = <<>> THEN 0 ELSE ParseInt(Tail(s)).val

\* (mutant) ImportState reading the leading digit of the identifier, as a
\* lenient parser would.
ImportedIdLeadingDigit(s) ==
    IF s # <<>> /\ IsDigit(Head(s)) THEN DigitVal(Head(s)) ELSE 0

\* ImportState: the id attribute of a fresh record is set to the parsed
\* identifier, whatever the parse reported.
ImportedId(s) == ParseInt(s).val

ZoneImportState(s) ==
    /\ component = "zone"
    /\ zoneState' = [zone_name |-> Null, id |-> Known(ImportedId(s)),
                     zone_type |-> Null, token |-> Null]
    /\ lastReq' = NoReq
    /\ untouched' = TRUE
    /\ reread' = FALSE
    /\ lastOp' = Op("ZoneImportState", s, FALSE, 0, FALSE, 0)
    /\ createdId' = Null
    /\ UNCHANGED <<component, accessKey, assetState, remoteZones, remoteAssets,
                   nextId, dataSource, snapshot>>

---------------------------------------------------------------------------
(* The Asset resource: PanopAssetResource.                                   *)

\* What an asset configuration may declare: asset_name and zone_id, and, as
\* the acceptance test and the example configuration do, asset_type.
AssetConfigs ==
    [asset_name : Names, zone_id : ZoneRefs, asset_type : {Null, Known("dns")}]

\* The attributes of the resource schema.
AssetSchema == {"asset_name", "id", "zone_id"}

\* The arguments a configuration sets.
AssetDeclares(config) ==
    {"asset_name", "zone_id"}
    \cup (IF IsNull(config.asset_type) THEN {} ELSE {"asset_type"})

\* A configuration is decoded against the schema before any handler runs: an
\* argument that the schema does not name is an error ("Unsupported argument").
SchemaAccepts(declared, schema) == declared \subseteq schema

\* The plan the framework derives from a configuration under the schema: id
\* is computed with no plan modifier.
AssetPlan(config) ==
    [asset_name |-> Known(config.asset_name),
     id |-> Unknown,
     zone_id |-> Known(config.zone_id)]

\* The attributes of AssetResourceModel (its tfsdk tags).
AssetResourceModel == {"asset_name", "id", "zone_id"}

\* (mutant) AssetInput sending the asset's own id as zone_id.
AssetInputOwnId(data) ==
    [asset_name |-> ValueString(data.asset_name), zone_id |-> ValueInt64(data.id)]

\* The AssetInput that Create marshals into the POST body.
AssetInput(data) ==
    [asset_name |-> ValueString(data.asset_name), zone_id |-> ValueInt64(data.zone_id)]

\* (mutant) Create decoding the name from the key "name".
AssetCreateResponseByName(reply) ==
    IF reply.decodable
    THEN [AssetId |-> UintField(reply.body, "asset_id"),
          AssetName |-> Field(reply.body, "name", "")]
    ELSE [AssetId |-> 0, AssetName |-> ""]

\* Create decodes the response into its AssetResponse struct.
AssetCreateResponse(reply) ==
    IF reply.decodable
    THEN [AssetId |-> UintField(reply.body, "asset_id"),
          AssetName |-> Field(reply.body, "asset_name", "")]
    ELSE [AssetId |-> 0, AssetName |-> ""]

\* Create's test of the response status.
AssetCreateAccepts(status) == status = StatusCreated

AssetCreate(config) ==
    /\ component = "asset"
    /\ assetState = NoState
    /\ LET data == AssetPlan(config)
           body == AssetInput(data)
           e == AssetEntry(nextId, Field(body, "asset_name", ""),
                           Field(body, "zone_id", 0))
       IN  IF ~SchemaAccepts(AssetDeclares(config), AssetSchema)
           THEN /\ lastReq' = NoReq
                /\ untouched' = TRUE
                /\ reread' = FALSE
                /\ lastOp' = Op("AssetCreate", config, TRUE, 0, FALSE, 0)
                /\ UNCHANGED <<remoteAssets, nextId, assetState, createdId>>
           ELSE
           \E reply \in RemoteCreate(e, AssetCreateReply(e)) :
             LET created == reply.status = StatusCreated
                 err == reply.neterr \/ ~AssetCreateAccepts(reply.status)
                 zone == AssetCreateResponse(reply)
             IN  /\ lastReq' = Request("POST", <<"api", "assets">>,
                                       JsonHeaders(accessKey), body)
                 /\ remoteAssets' = IF created THEN Append(remoteAssets, e)
                                    ELSE remoteAssets
                 /\ nextId' = IF created THEN nextId + 1 ELSE nextId
                 /\ assetState' = IF err THEN assetState
                                  ELSE [data EXCEPT !.asset_name = Known(zone.AssetName),
                                                    !.id = Known(zone.AssetId)]
                 /\ createdId' = IF err THEN Null ELSE Known(zone.AssetId)
                 /\ untouched' = TRUE
                 /\ reread' = FALSE
                 /\ lastOp' = Op("AssetCreate", config, err, reply.status,
                                 created /\ reply.decodable,
                                 IF created THEN e.id ELSE 0)
    /\ snapshot' = NoState
    /\ UNCHANGED <<component, accessKey, zoneState, remoteZones, dataSource>>

\* Read decodes each entry of the response into its AssetResponse struct.
AssetReadResponse(reply) ==
    IF reply.decodable
    THEN [i \in 1..Len(reply.body) |->
            [AssetId |-> Field(reply.body[i], "id", 0),
             AssetName |-> Field(reply.body[i], "asset_name", ""),
             ZoneId |-> Field(reply.body[i], "zone_id", 0)]]
    ELSE <<>>

RECURSIVE AssetScanClearsMissing(_, _)
\* (mutant) the loop of Read blanking the name when no entry matches.
AssetScanClearsMissing(assets, data) ==
    IF assets = <<>> THEN [data EXCEPT !.asset_name = Known("")]
    ELSE IF Head(assets).AssetId = ValueInt64(data.id)
         THEN [data EXCEPT !.asset_name = Known(Head(assets).AssetName),
                           !.zone_id = Known(Head(assets).ZoneId)]
         ELSE AssetScanClearsMissing(Tail(assets), data)

RECURSIVE AssetScanByZoneId(_, _)
\* (mutant) the loop of Read matching the entry's id against the held zone_id.
AssetScanByZoneId(assets, data) ==
    IF assets = <<>> THEN data
    ELSE IF Head(assets).AssetId = ValueInt64(data.zone_id)
         THEN [data EXCEPT !.asset_name = Known(Head(assets).AssetName),
                           !.zone_id = Known(Head(assets).ZoneId)]
         ELSE AssetScanByZoneId(Tail(assets), data)

RECURSIVE AssetScan(_, _)
\* The loop of Read over the decoded assets: the first entry whose AssetId is
\* the held id overwrites name and zone_id, and ends the loop.
AssetScan(assets, data) ==
    IF assets = <<>> THEN data
    ELSE IF Head(assets).AssetId = ValueInt64(data.id)
         THEN [data EXCEPT !.asset_name = Known(Head(assets).AssetName),
                           !.zone_id = Known(Head(assets).ZoneId)]
         ELSE AssetScan(Tail(assets), data)

AssetRead ==
    /\ component = "asset"
    /\ assetState # NoState
    /\ \E reply \in RemoteList(remoteAssets) :
         LET err == reply.neterr \/ reply.status # StatusOK
             data == AssetScan(AssetReadResponse(reply), assetState)
         IN  /\ lastReq' = Request("GET", <<"api", "assets">>,
                                   JsonHeaders(accessKey), NoBody)
             /\ assetState' = IF err THEN assetState ELSE data
             /\ untouched' = TRUE
             /\ reread' = (lastOp.op = "AssetRead" /\ ~lastOp.err /\ untouched)
             /\ lastOp' = Op("AssetRead", NoBody, err, reply.status,
                             ~err /\ reply.decodable, 0)
             /\ snapshot' =
                    IF lastOp.op = "AssetCreate" /\ ~lastOp.err /\ ~err /\ reply.decodable
                    THEN data
                    ELSE IF lastOp.op = "AssetImportState" THEN snapshot ELSE NoState
    /\ UNCHANGED <<component, accessKey, zoneState, remoteZones, remoteAssets,
                   nextId, dataSource, createdId>>

\* The state the host proposes for a configuration over a prior state. The
\* host calls Update only when it differs from the prior state.
AssetProposed(config, prior) ==
    [asset_name |-> Known(config.asset_name),
     id |-> prior.id,
     zone_id |-> Known(config.zone_id)]

\* The struct Update reads the plan into: it is declared as ZoneResourceModel.
AssetUpdateModel == ZoneResourceModel

AssetUpdate(config) ==
    /\ component = "asset"
    /\ assetState # NoState
    /\ AssetProposed(config, assetState) # assetState
    /\ LET data == AssetPlan(config)
           err == \/ ~SchemaAccepts(AssetDeclares(config), AssetSchema)
                  \/ ~GetInto(data, AssetUpdateModel)
       IN  /\ assetState' = IF err THEN assetState ELSE data
           /\ untouched' = TRUE
           /\ reread' = FALSE
           /\ lastOp' = Op("AssetUpdate", config, err, 0, FALSE, 0)
    /\ lastReq' = NoReq
    /\ snapshot' = NoState
    /\ UNCHANGED <<component, accessKey, zoneState, remoteZones, remoteAssets,
                   nextId, dataSource, createdId>>

\* The headers Delete adds to its request.
AssetDeleteHeaders(key) == JsonHeaders(key)

\* Delete's test of the response status.
AssetDeleteAccepts(status) == status = StatusOK

AssetDelete ==
    /\ component = "asset"
    /\ assetState # NoState
    /\ LET path == <<"api", "assets", FormatInt(ValueInt64(assetState.id))>>
       IN  \E reply \in RemoteDelete(remoteAssets, path) :
             LET err == reply.neterr \/ ~AssetDeleteAccepts(reply.status)
                 deleted == reply.status = StatusOK
             IN  /\ lastReq' = Request("DELETE", path,
                                       AssetDeleteHeaders(accessKey), NoBody)
                 /\ remoteAssets' = IF deleted
                                    THEN Without(remoteAssets, ParseInt(path[3]).val)
                                    ELSE remoteAssets
                 \* the framework removes the record when Delete reports no error
                 /\ assetState' = IF err THEN assetState ELSE NoState
                 /\ createdId' = IF err THEN createdId ELSE Null
                 /\ snapshot' = NoState
                 /\ untouched' = TRUE
                 /\ reread' = FALSE
                 /\ lastOp' = Op("AssetDelete", NoBody, err, reply.status, FALSE, 0)
    /\ UNCHANGED <<component, accessKey, zoneState, remoteZones, nextId,
                   dataSource>>

AssetImportState(s) ==
    /\ component = "asset"
    /\ assetState' = [asset_name |-> Null, id |-> Known(ImportedId(s)),
                      zone_id |-> Null]
    /\ lastReq' = NoReq
    /\ untouched' = TRUE
    /\ reread' = FALSE
    /\ lastOp' = Op("AssetImportState", s, FALSE, 0, FALSE, 0)
    /\ createdId' = Null
    /\ UNCHANGED <<component, accessKey, zoneState, remoteZones, remoteAssets,
                   nextId, dataSource, snapshot>>

---------------------------------------------------------------------------
(* The data sources: PanopZoneDataSource and PanopAssetDataSource.           *)

\* Read decodes each entry of the response into its ZoneResponse struct and
\* appends a ZoneModel for it.
ZoneModels(reply) ==
    IF reply.decodable
    THEN [i \in 1..Len(reply.body) |->
            [zone_name |-> Known(Field(reply.body[i], "zone_name", "")),
             tenant_id |-> Known(UintField(reply.body[i], "tenant_id")),
             id |-> Known(UintField(reply.body[i], "id")),
             zone_type |-> Known(Field(reply.body[i], "zone_type", "")),
             token |-> Known(Field(reply.body[i], "token", ""))]]
    ELSE <<>>

ZoneDataSourceRead ==
    /\ component = "zone_data"
    /\ \E reply \in RemoteList(remoteZones) :
         LET err == reply.neterr \/ reply.status # StatusOK
         IN  /\ lastReq' = Request("GET", <<"api", "zones">>,
                                   JsonHeaders(accessKey), NoBody)
             /\ dataSource' = IF err THEN dataSource
                              ELSE [zones |-> ZoneModels(reply)]
             /\ untouched' = TRUE
             /\ reread' = FALSE
             /\ lastOp' = Op("ZoneDataSourceRead", NoBody, err, reply.status,
                             ~err /\ reply.decodable, 0)
    /\ UNCHANGED <<component, accessKey, zoneState, assetState, remoteZones,
                   remoteAssets, nextId, createdId, snapshot>>

\* Read decodes each entry of the response into its AssetResponse struct and
\* builds an AssetDataSourceModel from it.
AssetModels(reply) ==
    IF reply.decodable
    THEN [i \in 1..Len(reply.body) |->
            [asset_name |-> Known(Field(reply.body[i], "asset_name", "")),
             id |-> Known(Field(reply.body[i], "id", 0)),
             zone_id |-> Known(Field(reply.body[i], "zone_id", 0))]]
    ELSE <<>>

\* (mutant) the test without its "no filter" case.
AssetKeptFilterOnly(assetModel, filter) == assetModel.zone_id = filter

\* The test that keeps an asset in the result.
AssetKept(assetModel, filter) == assetModel.zone_id = filter \/ IsNull(filter)

RECURSIVE AssetFilter(_, _, _)
\* The loop of Read over the decoded assets: each kept asset is appended to
\* data.Assets, here acc.
AssetFilter(assets, filter, acc) ==
    IF assets = <<>> THEN acc
    ELSE AssetFilter(Tail(assets), filter,
                     IF AssetKept(Head(assets), filter)
                     THEN Append(acc, Head(assets)) ELSE acc)

\* The zone_id a data source configuration may declare.
Filters == {Null} \cup {Known(z) : z \in ZoneRefs}

AssetDataSourceRead(filter) ==
    /\ component = "asset_data"
    /\ \E reply \in RemoteList(remoteAssets) :
         LET err == reply.neterr \/ reply.status # StatusOK
         IN  /\ lastReq' = Request("GET", <<"api", "assets">>,
                                   JsonHeaders(accessKey), NoBody)
             /\ dataSource' = IF err THEN dataSource
                              ELSE [zone_id |-> filter,
                                    assets |-> AssetFilter(AssetModels(reply),
                                                           filter, <<>>)]
             /\ untouched' = TRUE
             /\ reread' = FALSE
             /\ lastOp' = Op("AssetDataSourceRead", filter, err, reply.status,
                             ~err /\ reply.decodable, 0)
    /\ UNCHANGED <<component, accessKey, zoneState, assetState, remoteZones,
                   remoteAssets, nextId, createdId, snapshot>>

---------------------------------------------------------------------------
(* Other clients of the remote create and delete entities out of band.      *)

\* The name the remote holds for an entity of another client.
NameOf(id) == IF id % 2 = 1 THEN "a.example" ELSE "b.example"

OtherClientCreate ==
    /\ nextId <= MaxId
    /\ \/ /\ component = "zone"
          /\ remoteZones' = Append(remoteZones, ZoneEntry(nextId, NameOf(nextId)))
          /\ UNCHANGED remoteAssets
       \/ /\ component = "asset"
          /\ \E z \in ZoneRefs :
                remoteAssets' = Append(remoteAssets, AssetEntry(nextId, NameOf(nextId), z))
          /\ UNCHANGED remoteZones
    /\ nextId' = nextId + 1
    /\ untouched' = FALSE
    /\ reread' = FALSE
    /\ UNCHANGED <<component, accessKey, zoneState, assetState, dataSource,
                   lastReq, lastOp, createdId, snapshot>>

OtherClientDelete ==
    /\ \/ /\ component = "zone"
          /\ \E i \in 1..Len(remoteZones) :
                remoteZones' = Without(remoteZones, remoteZones[i].id)
          /\ UNCHANGED remoteAssets
       \/ /\ component = "asset"
          /\ \E i \in 1..Len(remoteAssets) :
                remoteAssets' = Without(remoteAssets, remoteAssets[i].id)
          /\ UNCHANGED remoteZones
    /\ untouched' = FALSE
    /\ reread' = FALSE
    /\ UNCHANGED <<component, accessKey, zoneState, assetState, nextId,
                   dataSource, lastReq, lastOp, createdId, snapshot>>

---------------------------------------------------------------------------
(* Specifications.                                                          *)

Components == {"zone", "asset", "zone_data", "asset_data"}
AccessKeys == {"key1", "key2"}

\* All sequences over S of length at most n.
SeqsUpTo(S, n) == UNION {[1..m -> S] : m \in 0..n}

\* The collections a data source may find at the remote.
ZoneCollections == SeqsUpTo({ZoneEntry(i, NameOf(i)) : i \in ZoneRefs}, MaxColl)
AssetCollections ==
    SeqsUpTo({AssetEntry(i, NameOf(i), z) : i \in ZoneRefs, z \in ZoneRefs}, MaxColl)

\* After provider Configure and the construction of the component: nothing
\* is stored and nothing was sent. A resource starts against an empty remote
\* (other clients fill it); a data source against any collection.
Init ==
    /\ component \in Components
    /\ accessKey \in AccessKeys
    /\ zoneState = NoState
    /\ assetState = NoState
    /\ remoteZones \in (IF component = "zone_data" THEN ZoneCollections ELSE {<<>>})
    /\ remoteAssets \in (IF component = "asset_data" THEN AssetCollections ELSE {<<>>})
    /\ nextId = 1
    /\ dataSource = NoState
    /\ lastReq = NoReq
    /\ lastOp = Op("none", NoBody, FALSE, 0, FALSE, 0)
    /\ untouched = TRUE
    /\ createdId = Null
    /\ reread = FALSE
    /\ snapshot = NoState

\* The identifiers a host imports by: the decimal strings of identifiers,
\* and a string that is no number.
HostImportIds == {FormatInt(i) : i \in 0..MaxId} \cup {<<"a">>}

Next ==
    \/ \E config \in ZoneConfigs : ZoneCreate(config)
    \/ ZoneRead
    \/ \E config \in ZoneConfigs : ZoneUpdate(config)
    \/ ZoneDelete
    \/ \E s \in HostImportIds : ZoneImportState(s)
    \/ \E config \in AssetConfigs : AssetCreate(config)
    \/ AssetRead
    \/ \E config \in AssetConfigs : AssetUpdate(config)
    \/ AssetDelete
    \/ \E s \in HostImportIds : AssetImportState(s)
    \/ ZoneDataSourceRead
    \/ \E filter \in Filters : AssetDataSourceRead(filter)
    \/ OtherClientCreate
    \/ OtherClientDelete

Spec == Init /\ [][Next]_vars

\* The characters of the strings handed to ImportState.
ImportChars == {"0", "3", "7", "-", "+", "a"}
ImportIds == SeqsUpTo(ImportChars, MaxLen)

\* A resource with no record yet.
InitImport == Init /\ component \in {"zone", "asset"}

\* ImportState seeds a new record from each bounded string.
ImportZone == lastOp.op = "none" /\ \E s \in ImportIds : ZoneImportState(s)
ImportAsset == lastOp.op = "none" /\ \E s \in ImportIds : AssetImportState(s)

NextImport == ImportZone \/ ImportAsset

SpecImport == InitImport /\ [][NextImport]_vars

\* The collections a remote that repeats identifiers may answer a Read with:
\* entries of the same id differ in their names.
ScanZoneCollections ==
    SeqsUpTo({ZoneEntry(i, n) : i \in ZoneRefs, n \in Names}, MaxColl)
ScanAssetCollections ==
    SeqsUpTo({AssetEntry(i, NameOf(z), z) : i \in ZoneRefs, z \in ZoneRefs}, MaxColl)

\* A resource with no record yet, against a remote that holds any such
\* collection and has assigned all its identifiers.
InitScan ==
    /\ component \in {"zone", "asset"}
    /\ accessKey \in AccessKeys
    /\ zoneState = NoState
    /\ assetState = NoState
    /\ remoteZones \in (IF component = "zone" THEN ScanZoneCollections ELSE {<<>>})
    /\ remoteAssets \in (IF component = "asset" THEN ScanAssetCollections ELSE {<<>>})
    /\ nextId = MaxId + 1
    /\ dataSource = NoState
    /\ lastReq = NoReq
    /\ lastOp = Op("none", NoBody, FALSE, 0, FALSE, 0)
    /\ untouched = TRUE
    /\ createdId = Null
    /\ reread = FALSE
    /\ snapshot = NoState

\* The record is imported by an identifier and refreshed by Read.
NextScan ==
    \/ \E s \in HostImportIds : ZoneImportState(s)
    \/ ZoneRead
    \/ \E s \in HostImportIds : AssetImportState(s)
    \/ AssetRead

SpecScan == InitScan /\ [][NextScan]_vars

---------------------------------------------------------------------------
(* Claims.                                                                  *)

\* The record of the resource this run drives.
Stored == IF component = "asset" THEN assetState ELSE zoneState

\* The first entry of coll whose id is id.
FirstWith(coll, id) ==
    coll[CHOOSE i \in 1..Len(coll) :
            coll[i].id = id /\ \A j \in 1..(i - 1) : coll[j].id # id]

\* C1: a Zone Read that follows a successful Zone Create of name N, both
\* with decoded responses, against a remote that still holds the created
\* zone, leaves a record with name N, the id the remote assigned and a
\* non-empty token.
C1_ZoneRoundTrip ==
    [][(/\ lastOp.op = "ZoneCreate" /\ ~lastOp.err /\ lastOp.decoded
        /\ lastOp'.op = "ZoneRead" /\ ~lastOp'.err /\ lastOp'.decoded
        /\ Present(remoteZones', lastOp.rid))
       => (/\ zoneState'.zone_name = Known(lastOp.arg.zone_name)
           /\ zoneState'.id = Known(lastOp.rid)
           /\ ValueString(zoneState'.token) # "")]_vars

\* C1 witness: a zone created as "b.example" has been read back from the
\* remote that holds it.
C1_Witness ==
    /\ component = "zone" /\ lastOp.op = "ZoneRead" /\ lastOp.decoded /\ untouched
    /\ snapshot # NoState /\ createdId # Null /\ zoneState # NoState
    /\ zoneState.id = createdId
    /\ Present(remoteZones, ValueInt64(zoneState.id))
    /\ zoneState.zone_name = Known("b.example")

\* C2: a successful Asset Create with desired zone_id Z posts zone_id Z and
\* stores zone_id Z; an Asset Read that finds the asset in the decoded
\* collection leaves zone_id equal to the value the remote reports.
C2_ZoneIdPassThrough ==
    /\ (lastOp.op = "AssetCreate" /\ ~lastOp.err)
         => (/\ lastReq.body.zone_id = lastOp.arg.zone_id
             /\ assetState.zone_id = Known(lastOp.arg.zone_id))
    /\ (/\ lastOp.op = "AssetRead" /\ ~lastOp.err /\ lastOp.decoded /\ untouched
        /\ Present(remoteAssets, ValueInt64(assetState.id)))
         => assetState.zone_id =
              Known(FirstWith(remoteAssets, ValueInt64(assetState.id)).zone_id)

\* C2 witness: an asset created with zone_id 2 has been read back.
C2_Witness ==
    /\ component = "asset" /\ lastOp.op = "AssetRead" /\ lastOp.decoded /\ untouched
    /\ createdId # Null /\ assetState # NoState /\ assetState.id = createdId
    /\ Present(remoteAssets, ValueInt64(assetState.id))
    /\ assetState.zone_id = Known(2)

\* The records of L that a filter selects, in L's order, as data source models.
Selected(L, filter) ==
    LET sub == SelectSeq(L, LAMBDA e : IsNull(filter) \/ Known(e.zone_id) = filter)
    IN  [i \in 1..Len(sub) |->
           [asset_name |-> Known(sub[i].asset_name), id |-> Known(sub[i].id),
            zone_id |-> Known(sub[i].zone_id)]]

\* C3: the Asset data source's result is the subsequence of the remote
\* collection, in its order, of the records whose zone_id is the filter's
\* value, and the whole collection when no filter is declared.
C3_FilterCorrect ==
    (lastOp.op = "AssetDataSourceRead" /\ ~lastOp.err /\ lastOp.decoded)
      => (/\ dataSource.zone_id = lastOp.arg
          /\ dataSource.assets = Selected(remoteAssets, lastOp.arg))

\* C3 witness: of three assets with zone_ids 1, 1, 2, the filter 1 keeps two.
C3_Witness ==
    /\ lastOp.op = "AssetDataSourceRead" /\ ~lastOp.err /\ lastOp.decoded
    /\ lastOp.arg = Known(1)
    /\ Len(remoteAssets) = 3
    /\ [i \in 1..3 |-> remoteAssets[i].zone_id] = <<1, 1, 2>>
    /\ Len(dataSource.assets) = 2

\* C4: a Create that received a status other than 201 returned an error and
\* stored no record.
C4_CreateStatusGate ==
    (lastOp.op \in {"ZoneCreate", "AssetCreate"} /\ lastOp.status \notin {0, StatusCreated})
      => (lastOp.err /\ Stored = NoState)

\* C4 witness: a Zone Create was answered with status 500.
C4_Witness ==
    lastOp.op = "ZoneCreate" /\ lastOp.status = 500 /\ lastOp.err

\* C5: a Delete that received a status other than 200 returned an error and
\* the stored record is kept as it was.
C5_DeleteRejected ==
    [][(lastOp'.op \in {"ZoneDelete", "AssetDelete"} /\ lastOp'.status \notin {0, StatusOK})
       => (lastOp'.err /\ Stored' # NoState /\ Stored' = Stored)]_vars

\* C5 witness: the Delete of an identifier the remote had assigned and has
\* deleted already was answered 404 and returned an error.
C5_Witness ==
    /\ lastOp.op = "ZoneDelete" /\ lastOp.status = 404 /\ lastOp.err
    /\ zoneState # NoState
    /\ ValueInt64(zoneState.id) \in 1..(nextId - 1)
    /\ ~Present(remoteZones, ValueInt64(zoneState.id))

\* C6: from the successful Create that stored it until the Delete, the
\* stored id of a Zone or Asset is the id that Create stored.
C6_IdImmutable ==
    createdId # Null => (Stored # NoState /\ Stored.id = createdId)

\* The token values a record or a configuration may hold.
TokenValues == {Token(i) : i \in 1..MaxId} \cup {"declared"}

\* C7: no request body carries a token: neither a "token" field nor a token
\* value in a name field.
C7_TokenNeverSent ==
    (lastReq # NoReq /\ lastReq.body # NoBody)
      => (/\ "token" \notin DOMAIN lastReq.body
          /\ \A k \in DOMAIN lastReq.body \cap {"zone_name", "asset_name"} :
                lastReq.body[k] \notin TokenValues)

\* C7 witness: a Zone Create whose desired state declares a token has sent
\* its request.
C7_Witness ==
    /\ lastOp.op = "ZoneCreate" /\ lastOp.arg.token = Known("declared")
    /\ lastReq # NoReq /\ lastReq.method = "POST" /\ lastReq.body # NoBody
    /\ ~lastOp.err /\ zoneState.token # Known("declared")

\* C8: every request carries Authorization: Bearer <accessKey> and
\* Content-Type: application/json.
C8_HeadersOnEveryRequest ==
    lastReq # NoReq
      => (/\ {"Authorization", "Content-Type"} \subseteq DOMAIN lastReq.headers
          /\ lastReq.headers["Authorization"] = "Bearer " \o accessKey
          /\ lastReq.headers["Content-Type"] = "application/json")

RECURSIVE PositionalValue(_)
\* The number a digit string denotes: the sum of its digits times their
\* powers of ten.
PositionalValue(s) ==
    IF s = <<>> THEN 0
    ELSE DigitVal(Head(s)) * 10 ^ (Len(s) - 1) + PositionalValue(Tail(s))

\* s is the decimal string of a non-negative integer.
IsDecimalOfNat(s) ==
    /\ s # <<>>
    /\ \A i \in 1..Len(s) : IsDigit(s[i])
    /\ (Len(s) > 1 => s[1] # "0")

\* C9: importing the decimal string of a non-negative integer n leaves a
\* record whose id is n and whose other fields are null, and sends nothing.
C9_ImportDeterminism ==
    (lastOp.op \in {"ZoneImportState", "AssetImportState"} /\ IsDecimalOfNat(lastOp.arg))
      => (/\ ~lastOp.err
          /\ Stored # NoState
          /\ Stored.id = Known(PositionalValue(lastOp.arg))
          /\ \A a \in DOMAIN Stored \ {"id"} : Stored[a] = Null
          /\ lastReq = NoReq
          /\ remoteZones = <<>> /\ remoteAssets = <<>>)

\* C9 witness: "337" was imported as 337.
C9_Witness ==
    /\ lastOp.op = "ZoneImportState" /\ lastOp.arg = <<"3", "3", "7">>
    /\ zoneState.id = Known(337)

\* The attributes an import verification compares.
Verified == IF component = "asset" THEN {"id", "asset_name", "zone_id"}
            ELSE {"id", "zone_name", "zone_type"}

\* The last call was a Read that followed the import of the snapshot's
\* identifier and found that identifier in the decoded collection.
ImportVerified ==
    /\ component \in {"zone", "asset"}
    /\ lastOp.op \in {"ZoneRead", "AssetRead"} /\ ~lastOp.err /\ lastOp.decoded
    /\ untouched
    /\ snapshot # NoState /\ createdId = Null /\ Stored # NoState
    /\ Stored.id = snapshot.id
    /\ Present(IF component = "asset" THEN remoteAssets ELSE remoteZones,
               ValueInt64(Stored.id))

\* C10: for an entity created and read and still at the remote, Import by
\* its identifier followed by Read gives the record held after Create and
\* Read, attribute by attribute (the token of a Zone aside).
C10_ImportVerify ==
    ImportVerified => \A a \in Verified : Stored[a] = snapshot[a]

\* C10 witness: the import of a created zone has been verified.
C10_Witness == ImportVerified /\ component = "zone"

\* C11: an Asset Create of name N that succeeded with a decoded response
\* stores asset_name N, and the Asset Read that follows it without error
\* leaves asset_name N.
C11_AssetNamePreserved ==
    [][/\ (lastOp'.op = "AssetCreate" /\ ~lastOp'.err /\ lastOp'.decoded)
            => assetState'.asset_name = Known(lastOp'.arg.asset_name)
       /\ (/\ lastOp.op = "AssetCreate" /\ ~lastOp.err /\ lastOp.decoded
           /\ lastOp'.op = "AssetRead" /\ ~lastOp'.err)
            => assetState'.asset_name = Known(lastOp.arg.asset_name)]_vars

\* C11 witness: an asset created as "b.example" has been read back from the
\* remote that holds it, and is still named "b.example".
C11_Witness ==
    /\ component = "asset" /\ lastOp.op = "AssetRead" /\ lastOp.decoded /\ untouched
    /\ snapshot # NoState /\ createdId # Null /\ assetState # NoState
    /\ assetState.id = createdId
    /\ Present(remoteAssets, ValueInt64(assetState.id))
    /\ assetState.asset_name = Known("b.example")

\* C12: an asset declaration with asset_type is accepted: its Create sends a
\* request whose payload has no asset_type, and a Create that returned no
\* error stored the declared asset_type.
C12_AssetTypeDeclarable ==
    (lastOp.op = "AssetCreate" /\ ~IsNull(lastOp.arg.asset_type))
      => (/\ lastReq # NoReq
          /\ "asset_type" \notin DOMAIN lastReq.body
          /\ ~lastOp.err => (/\ "asset_type" \in DOMAIN assetState
                             /\ assetState.asset_type = lastOp.arg.asset_type))

\* C13: a Zone Update returns no error, sends no request, leaves the remote
\* as it was, and stores every attribute the desired state declares (the
\* name, the type or its default, and the token when it is declared).
C13_ZoneUpdateNoOp ==
    [][(lastOp'.op = "ZoneUpdate" /\ untouched')
       => (/\ ~lastOp'.err
           /\ lastReq' = NoReq
           /\ remoteZones' = remoteZones /\ nextId' = nextId
           /\ zoneState'.zone_name = Known(lastOp'.arg.zone_name)
           /\ zoneState'.zone_type = (IF IsNull(lastOp'.arg.zone_type)
                                      THEN Known("dns") ELSE lastOp'.arg.zone_type)
           /\ ~IsNull(lastOp'.arg.token)
                 => zoneState'.token = lastOp'.arg.token)]_vars

\* C13 witness: a zone that the remote still holds as "a.example" has been
\* updated to "b.example" in the record alone.
C13_Witness ==
    /\ lastOp.op = "ZoneUpdate" /\ ~lastOp.err /\ lastReq = NoReq
    /\ createdId # Null /\ Present(remoteZones, ValueInt64(createdId))
    /\ FirstWith(remoteZones, ValueInt64(createdId)).zone_name = "a.example"
    /\ zoneState.zone_name = Known("b.example")

\* C14: an Asset Update (of a declaration the schema accepts) returns no
\* error, sends no request, and leaves the record's asset_name and zone_id
\* equal to the desired ones.
C14_AssetUpdateNoOp ==
    (lastOp.op = "AssetUpdate" /\ IsNull(lastOp.arg.asset_type))
      => (/\ ~lastOp.err
          /\ lastReq = NoReq
          /\ assetState.asset_name = Known(lastOp.arg.asset_name)
          /\ assetState.zone_id = Known(lastOp.arg.zone_id))

\* C15: a Zone Read or Asset Read that decoded a 200 response returns no
\* error; when no entry of the collection has the held id the record is
\* saved as it was, and when one has, exactly name, token and type (Zone) or
\* name and zone_id (Asset) are overwritten from the first such entry.
C15_NotFoundOnRefresh ==
    [][/\ (/\ lastOp'.op = "ZoneRead" /\ untouched'
           /\ lastOp'.status = StatusOK /\ lastOp'.decoded)
            => /\ ~lastOp'.err
               /\ zoneState' =
                    IF ~Present(remoteZones, ValueInt64(zoneState.id))
                    THEN zoneState
                    ELSE LET e == FirstWith(remoteZones, ValueInt64(zoneState.id))
                         IN  [zoneState EXCEPT !.zone_name = Known(e.zone_name),
                                               !.token = Known(e.token),
                                               !.zone_type = Known(e.zone_type)]
       /\ (/\ lastOp'.op = "AssetRead" /\ untouched'
           /\ lastOp'.status = StatusOK /\ lastOp'.decoded)
            => /\ ~lastOp'.err
               /\ assetState' =
                    IF ~Present(remoteAssets, ValueInt64(assetState.id))
                    THEN assetState
                    ELSE LET e == FirstWith(remoteAssets, ValueInt64(assetState.id))
                         IN  [assetState EXCEPT !.asset_name = Known(e.asset_name),
                                                !.zone_id = Known(e.zone_id)]]_vars

\* C15 witness: an asset that was created and then deleted out of band has
\* been read: the collection was decoded, the asset is not in it, and the
\* record still holds its id and name.
C15_Witness ==
    /\ lastOp.op = "AssetRead" /\ ~lastOp.err /\ lastOp.decoded /\ untouched
    /\ createdId # Null /\ assetState # NoState /\ assetState.id = createdId
    /\ ValueInt64(createdId) \in 1..(nextId - 1)
    /\ ~Present(remoteAssets, ValueInt64(createdId))
    /\ assetState.asset_name \in {Known(n) : n \in Names}

\* The entries of coll whose id is id, in coll's order.
Matches(coll, id) == SelectSeq(coll, LAMBDA e : e.id = id)

\* C16: when the decoded collection holds entries of the held id, the record
\* a Read leaves has the name, token and type (Zone) or the name and zone_id
\* (Asset) of the first of them in the remote's order, whatever the later
\* entries of that id hold.
C16_FirstMatchWins ==
    [][/\ (/\ lastOp'.op = "ZoneRead" /\ ~lastOp'.err /\ lastOp'.decoded
           /\ Matches(remoteZones, ValueInt64(zoneState.id)) # <<>>)
            => LET first == Head(Matches(remoteZones, ValueInt64(zoneState.id)))
               IN  /\ zoneState'.zone_name = Known(first.zone_name)
                   /\ zoneState'.token = Known(first.token)
                   /\ zoneState'.zone_type = Known(first.zone_type)
                   /\ zoneState'.id = zoneState.id
       /\ (/\ lastOp'.op = "AssetRead" /\ ~lastOp'.err /\ lastOp'.decoded
           /\ Matches(remoteAssets, ValueInt64(assetState.id)) # <<>>)
            => LET first == Head(Matches(remoteAssets, ValueInt64(assetState.id)))
               IN  /\ assetState'.asset_name = Known(first.asset_name)
                   /\ assetState'.zone_id = Known(first.zone_id)
                   /\ assetState'.id = assetState.id]_vars

\* C16 witness: a Zone Read decoded a collection with two entries of the held
\* id and different names, and the record has the name of the first.
C16_Witness ==
    /\ lastOp.op = "ZoneRead" /\ ~lastOp.err /\ lastOp.decoded
    /\ zoneState # NoState
    /\ LET m == Matches(remoteZones, ValueInt64(zoneState.id))
       IN  /\ Len(m) >= 2
           /\ m[1].zone_name # m[2].zone_name
           /\ zoneState.zone_name = Known(m[1].zone_name)

\* s is a decimal integer string: an optional sign and one or more digits.
IsDecimalInteger(s) ==
    LET body == IF s # <<>> /\ s[1] \in {"+", "-"} THEN Tail(s) ELSE s
    IN  body # <<>> /\ \A i \in 1..Len(body) : IsDigit(body[i])

\* C17: importing a Zone or an Asset by a string that is not a decimal
\* integer returns no error, sends nothing, and leaves a record whose id is 0.
C17_SilentZeroImport ==
    (/\ lastOp.op \in {"ZoneImportState", "AssetImportState"}
     /\ ~IsDecimalInteger(lastOp.arg))
      => (/\ ~lastOp.err
          /\ lastReq = NoReq
          /\ Stored # NoState
          /\ Stored.id = Known(0))

\* C17 witness: an Asset was imported by "3a" and its id is 0.
C17_Witness ==
    /\ lastOp.op = "AssetImportState" /\ lastOp.arg = <<"3", "a">>
    /\ ~lastOp.err /\ assetState.id = Known(0)

C19_ReadIdempotent ==
    [][/\ (/\ lastOp.op \in {"ZoneRead", "AssetRead"} /\ ~lastOp.err /\ untouched
           /\ lastOp'.op = lastOp.op /\ untouched'
           /\ (lastOp' = lastOp \/ lastOp.decoded))
            => Stored' = Stored
       /\ (lastOp'.op \in {"ZoneRead", "AssetRead"} /\ untouched')
            => (/\ remoteZones' = remoteZones
                /\ remoteAssets' = remoteAssets
                /\ nextId' = nextId)]_vars

\* C19 witness: a created zone that the remote holds has been read twice in
\* a row, both times from a decoded collection.
C19_Witness ==
    /\ reread /\ lastOp.op = "ZoneRead" /\ ~lastOp.err /\ lastOp.decoded /\ untouched
    /\ createdId # Null /\ zoneState # NoState /\ zoneState.id = createdId
    /\ Present(remoteZones, ValueInt64(createdId))
    /\ zoneState.zone_name = Known(FirstWith(remoteZones, ValueInt64(createdId)).zone_name)

=============================================================================
